---- MODULE Spec2Model ----
(***************************************************************************)
(* The analysis orchestration of nortic-validator: NorticAnalyzer.analyze  *)
(* (src/src/models/database.ts, 1456-1756) with the run table, the test    *)
(* result table, the progress-callback registry and the analyzer's shared  *)
(* browser and page fields.                                                *)
(*                                                                         *)
(* One action is one stretch of analyze between two awaits (JavaScript     *)
(* runs such a stretch without interruption), or a part of such a stretch  *)
(* that touches only the run's own locals.  A value read from a shared     *)
(* field is read in the action in which the code reads it.                 *)
(***************************************************************************)
EXTENDS Integers, Sequences, FiniteSets, TLC

\* Number of TestResult rows one evaluator returns (each real one returns six).
MaxTests == 1

\* Number of analyze calls made with one run identifier.
MaxCalls == 2

\* Number of faults (a failing database write, a failing browser call, a
\* throwing sink) injected into one analyze call.
MaxFaults == 1

\* Run identifiers (uuid v4 values generated by the routes).
Runs == {1, 2}

\* Math.round(0 / 0): the overall score of a run with no category result.
NaN == -1

\* The six category keys of the switch in analyze.
Recognized == {"usabilidad", "diseno", "contenido", "seguridad", "seo", "accesibilidad"}

\* The default of options.testCategories.
DefaultCategories == <<"usabilidad", "diseno", "contenido", "seguridad", "seo", "accesibilidad">>

\* The names of the README request example.
DocumentedCategories == <<"usability", "layout", "content", "security", "seo", "accessibility">>

\* testNames[category] || category
TestNames(category) ==
  CASE category = "usabilidad" -> "Pruebas de Usabilidad"
    [] category = "diseno" -> "Pruebas de Diseno y Layout"
    [] category = "contenido" -> "Pruebas de Contenido"
    [] category = "seguridad" -> "Pruebas de Seguridad"
    [] category = "seo" -> "Pruebas de SEO"
    [] category = "accesibilidad" -> "Pruebas de Accesibilidad"
    [] OTHER -> category

\* The category label an evaluator writes into its own TestResult rows.
EvaluatorLabel(category) ==
  CASE category = "usabilidad" -> "Usabilidad"
    [] category = "diseno" -> "Diseno y Layout"
    [] category = "contenido" -> "Contenido"
    [] category = "seguridad" -> "Seguridad"
    [] category = "seo" -> "SEO"
    [] category = "accesibilidad" -> "Accesibilidad"
    [] OTHER -> category

\* Math.round(num / den) for den > 0: the nearest integer, halves upwards.
JSRound(num, den) == (2 * num + den) \div (2 * den)

\* { ...base, ...update }: the fields of update laid over those of base.
Merge(base, update) ==
  [k \in (DOMAIN base) \cup (DOMAIN update) |->
     IF k \in DOMAIN update THEN update[k] ELSE base[k]]

(***************************************************************************)
(* The inputs of a run.  A target is what the site under analysis does:    *)
(* how navigation ends and what score each evaluator computes on its page. *)
(***************************************************************************)
Targets == {"all90", "all89", "all80", "all79", "mixed", "slow",
            "timeout", "neterr", "noresponse", "http404", "http500"}

\* What page.goto does on the target.
GotoOutcome(target) ==
  CASE target = "timeout" -> "throws_timeout"
    [] target = "neterr" -> "throws_net"
    [] target = "noresponse" -> "null"
    [] target = "http404" -> "404"
    [] target = "http500" -> "500"
    [] OTHER -> "200"

\* The score each test of an evaluator computes on a loaded page of the target.
TargetScore(target, category) ==
  CASE target = "all90" -> 90
    [] target = "slow" -> 70
    [] target = "all89" -> 89
    [] target = "all80" -> 80
    [] target = "all79" -> 79
    [] target = "mixed" -> IF category = "accesibilidad" THEN 40 ELSE 100
    [] OTHER -> 0

\* Values of new Date() in milliseconds at the end of a call that started at
\* StartTimes; the clock may step backwards.
StartTimes == {2000}
Times == {1000, 3500}

VARIABLES
  cfg,                \* the input sets of the specification being checked:
                      \*   runs: the calls made, sequential: one after the
                      \*   other or interleaved; options, targets, times: their
                      \*   inputs; faults: whether a database write, a browser
                      \*   call or a sink may fail; crashes: whether an
                      \*   evaluator may throw
  browser,            \* NorticAnalyzer.browser: 0 is null, else a browser handle
  launched,           \* browsers launched so far by chromium.launch
  page,               \* NorticAnalyzer.page: 0 is null, else a page handle
  pages,              \* the pages created so far, by handle
  progressCallbacks,  \* NorticAnalyzer.progressCallbacks: the ids with a sink
  analyses,           \* table nortic_analyses: id -> <<>> or <<row>>
  test_results,       \* table test_results: analysis_id -> rows in insert order
  violations,         \* table accessibility_violations: analysis_id -> row count
  delivered,          \* the updates handed to each run's sink, in order
  run                 \* the locals of each analyze call and of its route

vars == <<cfg, browser, launched, page, pages, progressCallbacks, analyses,
          test_results, violations, delivered, run>>

analyzerVars == <<browser, launched, page, pages>>
dbVars == <<analyses, test_results, violations>>

\* categoryResults = {}
EmptyResults == [c \in {} |-> [score |-> 0, status |-> "failed"]]

\* The locals of a call that has not started.
IdleRun ==
  [pc |-> "idle", target |-> "", options |-> {}, startTime |-> 0,
   currentTestName |-> "", currentCategory |-> "", error |-> "",
   testCategories |-> <<>>, idx |-> 1, completedCategories |-> 0,
   categoryResults |-> EmptyResults, allTestResults |-> <<>>, allViolations |-> 0,
   update |-> <<>>, gotoPage |-> 0, testerPage |-> 0, closingPage |-> 0,
   ownPage |-> 0, outcome |-> "", observed |-> FALSE,
   \* what has happened to the call so far
   faults |-> 0, dbFailed |-> FALSE, sinkThrew |-> FALSE, crashed |-> {},
   fatal |-> "", invoked |-> <<>>,
   \* a getAnalysisResult call for the id: its position, the row it has read
   \* and what the last call returned or threw
   resultPc |-> "idle", resultAnalysis |-> <<>>, result |-> [kind |-> "none"],
   \* the calls made with the id so far, and the rows of the id when the
   \* latest of them began
   calls |-> 0, before |-> [analysis |-> <<>>, rows |-> <<>>],
   \* the answer of the latest DELETE /api/nortic-analysis/:analysisId
   deleteResponse |-> "none"]

\* One analyze call, every input.
SingleCfg ==
  [runs |-> {1},
   sequential |-> TRUE,
   options |-> {{}, {<<>>}, {<<"seguridad", "foo">>}, {DocumentedCategories}},
   targets |-> Targets,
   startTimes |-> StartTimes,
   times |-> Times,
   faults |-> BOOLEAN,
   crashes |-> BOOLEAN]

\* Two analyze calls on the shared analyzer, the second after the first has
\* settled; short category lists.
SequentialCfg ==
  [runs |-> Runs,
   sequential |-> TRUE,
   options |-> {{<<"seguridad">>}},
   targets |-> {"all90", "timeout", "http404"},
   startTimes |-> StartTimes,
   times |-> {3500},
   faults |-> BOOLEAN,
   crashes |-> BOOLEAN]

\* Two analyze calls interleaved on the shared analyzer; short category lists,
\* no fault but a throwing evaluator.
ConcurrentCfg ==
  [runs |-> Runs,
   sequential |-> FALSE,
   options |-> {{<<"seguridad">>}},
   targets |-> {"all90", "mixed", "http404"},
   startTimes |-> StartTimes,
   times |-> {3500},
   faults |-> {FALSE},
   crashes |-> BOOLEAN]

\* One analyze call with a registered or no sink, and getAnalysisResult calls
\* for its id and for an id that has no run, at any moment.
ResultsCfg ==
  [runs |-> {1},
   sequential |-> TRUE,
   options |-> {{<<"seguridad">>}, {<<"usabilidad">>}, {<<>>}},
   targets |-> {"all90", "all79", "slow", "http404"},
   startTimes |-> StartTimes,
   times |-> {3500},
   faults |-> BOOLEAN,
   crashes |-> BOOLEAN]

\* One id, analyze called with it again after the first call has settled.
RepeatCfg ==
  [runs |-> {1},
   sequential |-> TRUE,
   options |-> {{<<"seguridad">>}},
   targets |-> {"all90", "http404"},
   startTimes |-> StartTimes,
   times |-> {3500},
   faults |-> BOOLEAN,
   crashes |-> BOOLEAN]

\* One analyze call, and DELETE requests for its id at any moment; no fault
\* but a throwing evaluator.
DeleteCfg ==
  [runs |-> {1},
   sequential |-> TRUE,
   options |-> {{<<"seguridad">>}},
   targets |-> {"all90", "http404"},
   startTimes |-> StartTimes,
   times |-> {3500},
   faults |-> {FALSE},
   crashes |-> BOOLEAN]

\* Whether one more fault may be injected into the call of run r.
Faults(r) == IF run[r].faults < MaxFaults THEN cfg.faults ELSE {FALSE}

InitWith(c) ==
  /\ cfg = c
  /\ browser = 0
  /\ launched = 0
  /\ page = 0
  /\ pages = <<>>
  /\ progressCallbacks = {}
  /\ analyses = [r \in Runs |-> <<>>]
  /\ test_results = [r \in Runs |-> <<>>]
  /\ violations = [r \in Runs |-> 0]
  /\ delivered = [r \in Runs |-> <<>>]
  /\ run = [r \in Runs |-> IdleRun]

Init == InitWith(SingleCfg)

InitSequential == InitWith(SequentialCfg)

InitConcurrent == InitWith(ConcurrentCfg)

InitResults == InitWith(ResultsCfg)

InitRepeat == InitWith(RepeatCfg)

InitDelete == InitWith(DeleteCfg)

(***************************************************************************)
(* DatabaseManager                                                         *)
(***************************************************************************)
\* createAnalysis: the inserted row (the columns not given are NULL).
NewAnalysisRow(id, url, startTime) ==
  [id |-> id, url |-> url, status |-> "in_progress", overall_score |-> {},
   compliance_level |-> {}, start_time |-> startTime, end_time |-> {},
   duration |-> {}]

\* updateAnalysis: UPDATE ... SET <the keys of updates> WHERE id = ?
UpdateAnalysis(table, id, updates) ==
  IF table[id] = <<>> THEN table
  ELSE [table EXCEPT ![id] = <<Merge(@[1], updates)>>]

\* createTestResult: INSERT INTO test_results (foreign keys are not enforced:
\* the connection never sets PRAGMA foreign_keys).
CreateTestResult(table, row) ==
  [table EXCEPT ![row.analysis_id] = Append(@, row)]

(***************************************************************************)
(* NorticAnalyzer: progress                                                *)
(***************************************************************************)
\* setProgressCallback: this.progressCallbacks.set(analysisId, callback)
SetProgressCallback(callbacks, analysisId) == callbacks \cup {analysisId}

\* removeProgressCallback: this.progressCallbacks.delete(analysisId)
RemoveProgressCallback(callbacks, analysisId) == callbacks \ {analysisId}

\* updateProgress: the update handed to the sink.
FullUpdate(analysisId, update) ==
  Merge([analysisId |-> analysisId, status |-> "in_progress", progress |-> 0,
         currentTest |-> "null", completedTests |-> 0, totalTests |-> 36],
        update)

\* Mutant: the update is handed to every registered sink.
UpdateProgress_Broadcast(analysisId, update) ==
  IF analysisId \in progressCallbacks
  THEN [s \in Runs |->
          IF s \in progressCallbacks
          THEN Append(delivered[s], FullUpdate(analysisId, update))
          ELSE delivered[s]]
  ELSE delivered

\* updateProgress: the sink's record after the call (no sink: nothing happens).
UpdateProgress(analysisId, update) ==
  IF analysisId \in progressCallbacks
  THEN [delivered EXCEPT ![analysisId] = Append(@, FullUpdate(analysisId, update))]
  ELSE delivered

\* Mutant: publishing for an id without a sink is an error.
SinkThrows_NoSinkIsError(analysisId) ==
  IF analysisId \in progressCallbacks THEN Faults(analysisId) ELSE {TRUE}

\* Whether the sink called by updateProgress throws.
SinkThrows(analysisId) ==
  IF analysisId \in progressCallbacks THEN Faults(analysisId) ELSE {FALSE}

\* The row saveErrorAsTestResult writes.
ErrorTestResult(analysisId, error, currentTest, category) ==
  [analysis_id |-> analysisId, category |-> category,
   test_name |-> IF currentTest = "" THEN "Error del Sistema" ELSE currentTest,
   status |-> "failed", score |-> 0, message |-> error]

\* saveErrorAsTestResult: the table after the call; a failed insert is logged
\* and swallowed.
SaveErrorAsTestResult(table, analysisId, error, currentTest, category, fails) ==
  IF fails THEN table
  ELSE CreateTestResult(table, ErrorTestResult(analysisId, error, currentTest, category))

(***************************************************************************)
(* NorticAnalyzer.analyze                                                  *)
(***************************************************************************)
\* An exception reaches the catch block of analyze.
Throw(st, error) == [st EXCEPT !.pc = "catch", !.error = error]

\* The call: startTime is read and createAnalysis is issued.  The route has
\* registered a sink before (POST /api/nortic-analysis) or not (POST /api/analyze).
Analyze(r) ==
  /\ r \in cfg.runs
  /\ run[r].pc = "idle"
  /\ cfg.sequential => \A q \in cfg.runs : q < r => run[q].pc = "settled"
  /\ \E target \in cfg.targets, options \in cfg.options, t \in cfg.startTimes,
        observed \in BOOLEAN :
       /\ run' = [run EXCEPT ![r] =
                    [@ EXCEPT !.pc = "createAnalysis", !.target = target,
                              !.observed = observed, !.calls = 1,
                              !.options = options, !.startTime = t,
                              !.currentTestName = "Inicializando analisis",
                              !.currentCategory = "system"]]
       /\ progressCallbacks' =
            IF observed THEN SetProgressCallback(progressCallbacks, r)
            ELSE progressCallbacks
  /\ UNCHANGED <<cfg, analyzerVars, dbVars, delivered>>

\* await dbManager.createAnalysis(...): the insert fails on a database error
\* or when a row with this id exists (PRIMARY KEY).
CreateAnalysis(r) ==
  /\ run[r].pc = "createAnalysis"
  /\ \E fails \in Faults(r) :
       IF fails \/ analyses[r] # <<>>
       THEN /\ run' = [run EXCEPT ![r] =
                         [Throw(@, "db") EXCEPT !.dbFailed = TRUE,
                                                !.faults = IF fails THEN @ + 1 ELSE @]]
            /\ UNCHANGED analyses
       ELSE /\ analyses' = [analyses EXCEPT ![r] =
                              <<NewAnalysisRow(r, run[r].target, run[r].startTime)>>]
            /\ run' = [run EXCEPT ![r].pc = "progress5",
                                  ![r].currentTestName = "Inicializando navegador"]
  /\ UNCHANGED <<cfg, analyzerVars, progressCallbacks, test_results, violations, delivered>>

\* updateProgress(5), then the browser is launched if there is none, else a
\* page is asked for.
Progress5(r) ==
  /\ run[r].pc = "progress5"
  /\ delivered' = UpdateProgress(r, [status |-> "in_progress", progress |-> 5,
                                     currentTest |-> run[r].currentTestName,
                                     completedTests |-> 0, totalTests |-> 36])
  /\ \E throws \in SinkThrows(r) :
       run' = [run EXCEPT ![r] =
                 IF throws THEN [Throw(@, "sink") EXCEPT !.sinkThrew = TRUE, !.faults = @ + 1]
                 ELSE [@ EXCEPT !.pc = IF browser = 0 THEN "initialize" ELSE "newPage"]]
  /\ UNCHANGED <<cfg, analyzerVars, progressCallbacks, dbVars>>

\* await this.initialize(): chromium.launch ends and this.browser is set.
Initialize(r) ==
  /\ run[r].pc = "initialize"
  /\ \E fails \in Faults(r) :
       IF fails
       THEN /\ run' = [run EXCEPT ![r] = [Throw(@, "launch") EXCEPT !.faults = @ + 1,
                                                    !.fatal = "acquisition"]]
            /\ UNCHANGED <<browser, launched>>
       ELSE /\ launched' = launched + 1
            /\ browser' = launched + 1
            /\ run' = [run EXCEPT ![r].pc = "newPage"]
  /\ UNCHANGED <<cfg, page, pages, progressCallbacks, dbVars, delivered>>

\* this.page = await this.browser.newPage(); goto is called on that page in
\* the same stretch, after updateProgress(10).
NewPage(r) ==
  /\ run[r].pc = "newPage"
  /\ \E fails \in Faults(r) :
       IF fails
       THEN /\ run' = [run EXCEPT ![r] = [Throw(@, "newPage") EXCEPT !.faults = @ + 1,
                                                    !.fatal = "acquisition"]]
            /\ UNCHANGED <<page, pages>>
       ELSE /\ pages' = Append(pages, [owner |-> r, target |-> "", closed |-> 0])
            /\ page' = Len(pages) + 1
            /\ run' = [run EXCEPT ![r].pc = "progress10",
                                  ![r].ownPage = Len(pages) + 1,
                                  ![r].gotoPage = Len(pages) + 1,
                                  ![r].currentTestName = "Cargando pagina web"]
  /\ UNCHANGED <<cfg, browser, launched, progressCallbacks, dbVars, delivered>>

\* updateProgress(10), then page.goto is issued.
Progress10(r) ==
  /\ run[r].pc = "progress10"
  /\ delivered' = UpdateProgress(r, [progress |-> 10,
                                     currentTest |-> run[r].currentTestName,
                                     completedTests |-> 1])
  /\ \E throws \in SinkThrows(r) :
       run' = [run EXCEPT ![r] =
                 IF throws THEN [Throw(@, "sink") EXCEPT !.sinkThrew = TRUE, !.faults = @ + 1]
                 ELSE [@ EXCEPT !.pc = "goto"]]
  /\ UNCHANGED <<cfg, analyzerVars, progressCallbacks, dbVars>>

\* What the navigation block makes of the outcome of page.goto: the category
\* and message of the saved TestResult and the message of the error thrown on.
NavigationFailure(outcome) ==
  CASE outcome = "throws_timeout" ->
         [category |-> "navigation", saved |-> "page.goto: timeout exceeded",
          thrown |-> "Tiempo de espera agotado"]
    [] outcome = "throws_net" ->
         [category |-> "navigation", saved |-> "page.goto: net::ERR_",
          thrown |-> "Error de red"]
    [] outcome = "null" ->
         [category |-> "navigation", saved |-> "No se pudo obtener respuesta",
          thrown |-> "No se pudo obtener respuesta"]
    [] outcome = "404" ->
         [category |-> "http", saved |-> "Pagina no encontrada (404)",
          thrown |-> "Pagina no encontrada (404)"]
    [] outcome = "500" ->
         [category |-> "http", saved |-> "Error interno del servidor (500)",
          thrown |-> "Error interno del servidor (500)"]

\* response = await this.page.goto(url, ...): on a failure, on no response
\* and on a status >= 400 saveErrorAsTestResult is issued.
Goto(r) ==
  /\ run[r].pc = "goto"
  /\ LET outcome == GotoOutcome(run[r].target) IN
       IF outcome = "200"
       THEN /\ pages' = [pages EXCEPT ![run[r].gotoPage].target = run[r].target]
            /\ run' = [run EXCEPT ![r].pc = "progress15",
                                  ![r].currentTestName = "Pagina cargada exitosamente"]
       ELSE /\ pages' = pages
            /\ run' = [run EXCEPT ![r].pc = "saveNavigationError",
                                  ![r].error = NavigationFailure(outcome).saved,
                                  ![r].fatal = NavigationFailure(outcome).category]
  /\ UNCHANGED <<cfg, browser, launched, page, progressCallbacks, dbVars, delivered>>

\* await this.saveErrorAsTestResult(..., 'navigation' | 'http'), then throw.
SaveNavigationError(r) ==
  /\ run[r].pc = "saveNavigationError"
  /\ LET failure == NavigationFailure(GotoOutcome(run[r].target)) IN
     \E fails \in Faults(r) :
       /\ test_results' = SaveErrorAsTestResult(test_results, r, failure.saved,
                            run[r].currentTestName, failure.category, fails)
       /\ run' = [run EXCEPT ![r] =
                    [Throw(@, failure.thrown) EXCEPT !.dbFailed = @ \/ fails,
                     !.faults = IF fails THEN @ + 1 ELSE @]]
  /\ UNCHANGED <<cfg, analyzerVars, progressCallbacks, analyses, violations, delivered>>

\* options.testCategories || [the six keys]
TestCategories(options) ==
  IF options = {} THEN DefaultCategories ELSE CHOOSE list \in options : TRUE

\* updateProgress(15), then the category loop is set up.
Progress15(r) ==
  /\ run[r].pc = "progress15"
  /\ delivered' = UpdateProgress(r, [progress |-> 15,
                                     currentTest |-> run[r].currentTestName,
                                     completedTests |-> 2])
  /\ \E throws \in SinkThrows(r) :
       run' = [run EXCEPT ![r] =
                 IF throws THEN [Throw(@, "sink") EXCEPT !.sinkThrew = TRUE, !.faults = @ + 1]
                 ELSE [@ EXCEPT !.pc = "category",
                                !.testCategories = TestCategories(run[r].options),
                                !.idx = 1, !.completedCategories = 0]]
  /\ UNCHANGED <<cfg, analyzerVars, progressCallbacks, dbVars>>

\* result.score >= 80 ? 'passed' : result.score >= 60 ? 'warning' : 'failed'
ScoreStatus(score) ==
  IF score >= 80 THEN "passed" ELSE IF score >= 60 THEN "warning" ELSE "failed"

\* The progress published at the head of a category.
CategoryProgress(completedCategories, totalCategories) ==
  15 + JSRound(completedCategories * 70, totalCategories)

\* Mutant: no try/catch around the loop body, the exception leaves the loop.
CategoryCatch_Propagates(st, error) == Throw(st, error)

\* The category catch block takes an exception of the loop body.
CategoryCatch(st, error) == [st EXCEPT !.pc = "saveCategoryError", !.error = error]

\* One turn of the category loop up to its await: the names are set, the
\* progress is published, and the evaluator of a recognized category is built
\* on this.page and started; an unrecognized category continues the loop.
\* After the last category the loop is left.
CategoryStart(r) ==
  /\ run[r].pc = "category"
  /\ LET st == run[r] IN
       IF st.idx > Len(st.testCategories)
       THEN /\ run' = [run EXCEPT ![r].pc = "progress90",
                                  ![r].currentTestName = "Guardando resultados"]
            /\ delivered' = delivered
       ELSE LET category == st.testCategories[st.idx]
                named == [st EXCEPT !.currentTestName = TestNames(category),
                                    !.currentCategory = category]
            IN
            /\ delivered' = UpdateProgress(r,
                 [progress |-> CategoryProgress(st.completedCategories,
                                                Len(st.testCategories)),
                  currentTest |-> TestNames(category),
                  completedTests |-> 2 + st.completedCategories * 6])
            /\ \E throws \in SinkThrows(r) :
                 run' = [run EXCEPT ![r] =
                   IF throws
                   THEN [CategoryCatch(named, "sink") EXCEPT !.sinkThrew = TRUE, !.faults = @ + 1]
                   ELSE IF category \in Recognized
                   THEN [named EXCEPT !.pc = "runAllTests", !.testerPage = page,
                           !.invoked = Append(@, [category |-> category, page |-> page])]
                   ELSE [named EXCEPT !.idx = @ + 1]]
  /\ UNCHANGED <<cfg, analyzerVars, progressCallbacks, dbVars>>

\* The score a test computes on the page its evaluator was built on: the tests
\* of an evaluator catch their own errors and score 0 on a page that is null,
\* closed or not loaded.
TestScore(pg, category) ==
  IF pg = 0 THEN 0
  ELSE IF pages[pg].closed > 0 \/ pages[pg].target = "" THEN 0
  ELSE TargetScore(pages[pg].target, category)

\* The status a test gives with its score: 100 passed, 70 warning, 30 failed
\* in the tests of UsabilityTester; score >= 80 ? 'passed' : score >= 60 ?
\* 'warning' : 'failed' in the others.
TestStatus(score) ==
  IF score >= 80 THEN "passed" ELSE IF score >= 60 THEN "warning" ELSE "failed"

\* result.tests: the rows carry the evaluator's analysisId and its own label.
EvaluatorTests(analysisId, category, score) ==
  [i \in 1..MaxTests |->
     [analysis_id |-> analysisId, category |-> EvaluatorLabel(category),
      test_name |-> <<"test 1", "test 2", "test 3">>[i],
      status |-> TestStatus(score), score |-> score, message |-> ""]]

RECURSIVE TotalScore(_)
\* tests.reduce((sum, test) => sum + (test.score || 0), 0)
TotalScore(tests) ==
  IF tests = <<>> THEN 0 ELSE Head(tests).score + TotalScore(Tail(tests))

\* tests.filter(t => t.status === 'passed').length
PassedTests(tests) == Len(SelectSeq(tests, LAMBDA t : t.status = "passed"))

\* result.score: UsabilityTester takes the share of passed tests, the five
\* other evaluators the rounded mean of the scores of their tests.
EvaluatorScore(category, tests) ==
  IF category = "usabilidad"
  THEN JSRound(PassedTests(tests) * 100, Len(tests))
  ELSE JSRound(TotalScore(tests), Len(tests))

\* The score of a category on a loaded page of the target.
CategoryScore(target, category) ==
  EvaluatorScore(category, EvaluatorTests(0, category, TargetScore(target, category)))

\* categoryResults[category] = value
SetResult(results, category, value) ==
  [c \in (DOMAIN results) \cup {category} |->
     IF c = category THEN value ELSE results[c]]

\* The loop body after the evaluator has returned.
CategorySucceeded(st, category, score, tests) ==
  [st EXCEPT !.categoryResults =
               SetResult(@, category, [score |-> score, status |-> ScoreStatus(score)]),
             !.allTestResults = @ \o tests,
             !.completedCategories = @ + 1,
             !.idx = @ + 1,
             !.pc = "category"]

\* Mutant: the failed category is left out of categoryResults.
CategoryFailed_NotCounted(st, category) ==
  [st EXCEPT !.completedCategories = @ + 1,
             !.idx = @ + 1,
             !.pc = "category"]

\* The category catch block after saveErrorAsTestResult.
CategoryFailed(st, category) ==
  [st EXCEPT !.categoryResults =
               SetResult(@, category, [score |-> 0, status |-> "failed"]),
             !.completedCategories = @ + 1,
             !.idx = @ + 1,
             !.pc = "category"]

\* result = await tester.runAllTests(): the evaluator returns or throws.
\* (No evaluator of the repository returns violations.)
RunAllTests(r) ==
  /\ run[r].pc = "runAllTests"
  /\ LET st == run[r]
         category == st.testCategories[st.idx]
         tests == EvaluatorTests(r, category, TestScore(st.testerPage, category))
         score == EvaluatorScore(category, tests)
     IN
     \E throws \in cfg.crashes :
       run' = [run EXCEPT ![r] =
                 IF throws
                 THEN [CategoryCatch(st, "evaluator") EXCEPT
                         !.crashed = @ \cup {category}]
                 ELSE CategorySucceeded(st, category, score, tests)]
  /\ UNCHANGED <<cfg, analyzerVars, progressCallbacks, dbVars, delivered>>

\* await this.saveErrorAsTestResult(analysisId, categoryError, currentTestName,
\* category), then the category counts with score 0.
SaveCategoryError(r) ==
  /\ run[r].pc = "saveCategoryError"
  /\ LET st == run[r]
         category == st.testCategories[st.idx]
     IN
     \E fails \in Faults(r) :
       /\ test_results' = SaveErrorAsTestResult(test_results, r, st.error,
                            st.currentTestName, category, fails)
       /\ run' = [run EXCEPT ![r] =
                    [CategoryFailed(st, category) EXCEPT !.dbFailed = @ \/ fails,
                     !.faults = IF fails THEN @ + 1 ELSE @]]
  /\ UNCHANGED <<cfg, analyzerVars, progressCallbacks, analyses, violations, delivered>>

\* updateProgress(90)
Progress90(r) ==
  /\ run[r].pc = "progress90"
  /\ delivered' = UpdateProgress(r, [progress |-> 90,
                                     currentTest |-> run[r].currentTestName,
                                     completedTests |-> 34])
  /\ \E throws \in SinkThrows(r) :
       run' = [run EXCEPT ![r] =
                 IF throws THEN [Throw(@, "sink") EXCEPT !.sinkThrew = TRUE, !.faults = @ + 1]
                 ELSE [@ EXCEPT !.pc = "persist"]]
  /\ UNCHANGED <<cfg, analyzerVars, progressCallbacks, dbVars>>

RECURSIVE SumScores(_, _)
\* scores.reduce((sum, score) => sum + score, 0) over the categories in keys
SumScores(results, keys) ==
  IF keys = {} THEN 0
  ELSE LET c == CHOOSE k \in keys : TRUE
       IN results[c].score + SumScores(results, keys \ {c})

\* Mutant: the overall score is the lowest category score.
OverallScore_Lowest(results) ==
  IF DOMAIN results = {} THEN NaN
  ELSE CHOOSE s \in {results[c].score : c \in DOMAIN results} :
         \A c \in DOMAIN results : s <= results[c].score

\* Math.round(sum / scores.length) over Object.values(categoryResults)
OverallScore(results) ==
  IF DOMAIN results = {} THEN NaN
  ELSE JSRound(SumScores(results, DOMAIN results), Cardinality(DOMAIN results))

\* Mutant: the thresholds are exclusive.
ComplianceLevel_Exclusive(overallScore) ==
  IF overallScore = NaN THEN "No Cumple"
  ELSE IF overallScore > 90 THEN "Excelente"
  ELSE IF overallScore > 80 THEN "Cumple"
  ELSE IF overallScore > 60 THEN "Parcial"
  ELSE "No Cumple"

\* The compliance level of an overall score (every comparison with NaN is false).
ComplianceLevel(overallScore) ==
  IF overallScore = NaN THEN "No Cumple"
  ELSE IF overallScore >= 90 THEN "Excelente"
  ELSE IF overallScore >= 80 THEN "Cumple"
  ELSE IF overallScore >= 60 THEN "Parcial"
  ELSE "No Cumple"

\* Math.round((end - start) / 1000)
Duration(startTime, endTime) == JSRound(endTime - startTime, 1000)

\* The arguments of the updateAnalysis call of the success path.
CompletedUpdate(st, endTime) ==
  [status |-> "completed",
   overall_score |-> {OverallScore(st.categoryResults)},
   compliance_level |-> {ComplianceLevel(OverallScore(st.categoryResults))},
   end_time |-> {endTime},
   duration |-> {Duration(st.startTime, endTime)}]

\* The two save loops, one insert at a time; after the last insert the score,
\* the level, endTime and the duration are computed and updateAnalysis issued.
Persist(r) ==
  /\ run[r].pc = "persist"
  /\ LET st == run[r] IN
       IF st.allTestResults # <<>>
       THEN \E fails \in Faults(r) :
              IF fails
              THEN /\ run' = [run EXCEPT ![r] = [Throw(@, "db") EXCEPT !.dbFailed = TRUE, !.faults = @ + 1]]
                   /\ UNCHANGED <<test_results, violations>>
              ELSE /\ test_results' = CreateTestResult(test_results, Head(st.allTestResults))
                   /\ run' = [run EXCEPT ![r].allTestResults = Tail(@)]
                   /\ UNCHANGED violations
       ELSE IF st.allViolations > 0
       THEN /\ violations' = [violations EXCEPT ![r] = @ + 1]
            /\ run' = [run EXCEPT ![r].allViolations = @ - 1]
            /\ UNCHANGED test_results
       ELSE \E endTime \in cfg.times :
              /\ run' = [run EXCEPT ![r].pc = "finalize",
                                    ![r].update = CompletedUpdate(st, endTime)]
              /\ UNCHANGED <<test_results, violations>>
  /\ UNCHANGED <<cfg, analyzerVars, progressCallbacks, analyses, delivered>>

\* await dbManager.updateAnalysis(analysisId, {status: 'completed', ...})
Finalize(r) ==
  /\ run[r].pc = "finalize"
  /\ \E fails \in Faults(r) :
       IF fails
       THEN /\ run' = [run EXCEPT ![r] = [Throw(@, "db") EXCEPT !.dbFailed = TRUE, !.faults = @ + 1]]
            /\ UNCHANGED analyses
       ELSE /\ analyses' = UpdateAnalysis(analyses, r, run[r].update)
            /\ run' = [run EXCEPT ![r].pc = "progress100"]
  /\ UNCHANGED <<cfg, analyzerVars, progressCallbacks, test_results, violations, delivered>>

\* updateProgress(100, completed), then return analysisId.
Progress100(r) ==
  /\ run[r].pc = "progress100"
  /\ delivered' = UpdateProgress(r, [status |-> "completed", progress |-> 100,
                                     currentTest |-> "null", completedTests |-> 36])
  /\ \E throws \in SinkThrows(r) :
       run' = [run EXCEPT ![r] =
                 IF throws THEN [Throw(@, "sink") EXCEPT !.sinkThrew = TRUE, !.faults = @ + 1]
                 ELSE [@ EXCEPT !.pc = "finally", !.outcome = "returned"]]
  /\ UNCHANGED <<cfg, analyzerVars, progressCallbacks, dbVars>>

\* catch (error): await this.saveErrorAsTestResult(analysisId, error,
\* currentTestName, currentCategory), whatever was saved before.
Catch(r) ==
  /\ run[r].pc = "catch"
  /\ \E fails \in Faults(r) :
       /\ test_results' = SaveErrorAsTestResult(test_results, r, run[r].error,
                            run[r].currentTestName, run[r].currentCategory, fails)
       /\ run' = [run EXCEPT ![r].pc = "catchUpdate", ![r].dbFailed = @ \/ fails,
                             ![r].faults = IF fails THEN @ + 1 ELSE @]
  /\ UNCHANGED <<cfg, analyzerVars, progressCallbacks, analyses, violations, delivered>>

\* The arguments of the updateAnalysis call of the catch block.
FailedUpdate(endTime) == [status |-> "failed", end_time |-> {endTime}]

\* await dbManager.updateAnalysis(analysisId, {status: 'failed', end_time});
\* a failure of this write leaves analyze through the finally block.
CatchUpdate(r) ==
  /\ run[r].pc = "catchUpdate"
  /\ \E fails \in Faults(r), endTime \in cfg.times :
       IF fails
       THEN /\ run' = [run EXCEPT ![r].pc = "finally", ![r].outcome = "threw",
                                  ![r].error = "db", ![r].dbFailed = TRUE,
                                  ![r].faults = @ + 1]
            /\ UNCHANGED analyses
       ELSE /\ analyses' = UpdateAnalysis(analyses, r, FailedUpdate(endTime))
            /\ run' = [run EXCEPT ![r].pc = "progressFailed"]
  /\ UNCHANGED <<cfg, analyzerVars, progressCallbacks, test_results, violations, delivered>>

\* updateProgress(failed, error), then throw new Error(errorMessage).
ProgressFailed(r) ==
  /\ run[r].pc = "progressFailed"
  /\ delivered' = UpdateProgress(r, [status |-> "failed", progress |-> 0,
                                     currentTest |-> "null", completedTests |-> 0,
                                     error |-> run[r].error])
  /\ \E throws \in SinkThrows(r) :
       run' = [run EXCEPT ![r] =
                 [@ EXCEPT !.pc = "finally", !.outcome = "threw",
                           !.error = IF throws THEN "sink" ELSE @,
                           !.sinkThrew = @ \/ throws,
                           !.faults = IF throws THEN @ + 1 ELSE @]]
  /\ UNCHANGED <<cfg, analyzerVars, progressCallbacks, dbVars>>

\* Mutant: the page is closed at the end of the try block, not in finally.
FinallyBlock_OnlyOnSuccess(st, pg) ==
  IF pg # 0 /\ st.outcome = "returned"
  THEN [st EXCEPT !.pc = "closing", !.closingPage = pg]
  ELSE [st EXCEPT !.pc = "done"]

\* finally: if (this.page) close() is called on the page this.page holds now.
FinallyBlock(st, pg) ==
  IF pg # 0 THEN [st EXCEPT !.pc = "closing", !.closingPage = pg]
  ELSE [st EXCEPT !.pc = "done"]

Finally(r) ==
  /\ run[r].pc = "finally"
  /\ run' = [run EXCEPT ![r] = FinallyBlock(@, page)]
  /\ pages' = IF run'[r].pc = "closing"
              THEN [pages EXCEPT ![run'[r].closingPage].closed = @ + 1]
              ELSE pages
  /\ UNCHANGED <<cfg, browser, launched, page, progressCallbacks, dbVars, delivered>>

\* await this.page.close() has ended: this.page = null.
PageClosed(r) ==
  /\ run[r].pc = "closing"
  /\ page' = 0
  /\ run' = [run EXCEPT ![r].pc = "done"]
  /\ UNCHANGED <<cfg, browser, launched, pages, progressCallbacks, dbVars, delivered>>

(***************************************************************************)
(* The routes: POST /api/nortic-analysis (a sink is registered) and        *)
(* POST /api/analyze (none)                                                *)
(***************************************************************************)
\* The update the catch handler of POST /api/nortic-analysis hands to the sink.
RouteFailedUpdate(analysisId, error) ==
  [analysisId |-> analysisId, status |-> "failed", progress |-> 0,
   currentTest |-> "null", completedTests |-> 0, totalTests |-> 36,
   error |-> error]

\* The promise of analyze settles: then removes the sink; catch calls the
\* sink itself with the final error update and then removes it.
Settle(r) ==
  /\ run[r].pc = "done"
  /\ run' = [run EXCEPT ![r].pc = "settled"]
  /\ IF ~run[r].observed
     THEN UNCHANGED <<progressCallbacks, delivered>>
     ELSE IF run[r].outcome = "returned"
     THEN /\ progressCallbacks' = RemoveProgressCallback(progressCallbacks, r)
          /\ UNCHANGED delivered
     ELSE /\ delivered' = [delivered EXCEPT ![r] =
                             Append(@, RouteFailedUpdate(r, run[r].error))]
          /\ \E throws \in Faults(r) :
               progressCallbacks' =
                 IF throws THEN progressCallbacks
                 ELSE RemoveProgressCallback(progressCallbacks, r)
  /\ UNCHANGED <<cfg, analyzerVars, dbVars>>

(***************************************************************************)
(* NorticAnalyzer.getAnalysisResult                                        *)
(***************************************************************************)
\* Mutant: only a run still in progress is refused.
IsCompleted_OrFailed(analysis) == analysis.status \in {"completed", "failed"}

\* analysis.status !== 'completed' is false.
IsCompleted(analysis) == analysis.status = "completed"

\* throw new Error(`Analysis is not completed. Status: ${analysis.status}`)
NotCompletedError(analysis) == [kind |-> "error", status |-> analysis.status]

\* column || default for a numeric column: NULL (a stored NaN is NULL) and 0
\* give the default.
NumberOr(column, default) ==
  IF column = {} \/ column = {NaN} \/ column = {0} THEN default
  ELSE CHOOSE v \in column : TRUE

\* column || default for a text column: NULL gives the default.
TextOr(column, default) ==
  IF column = {} THEN default ELSE CHOOSE v \in column : TRUE

RECURSIVE SumRowScores(_)
\* results.reduce((sum, r) => sum + (r.score || 0), 0)
SumRowScores(rows) ==
  IF rows = <<>> THEN 0 ELSE Head(rows).score + SumRowScores(Tail(rows))

\* categories: the rows grouped by their category column, each group with the
\* rounded mean of its scores.
CategoryGroups(rows) ==
  [c \in {rows[i].category : i \in DOMAIN rows} |->
     LET group == SelectSeq(rows, LAMBDA row : row.category = c)
         avgScore == JSRound(SumRowScores(group), Len(group))
     IN [score |-> avgScore, status |-> ScoreStatus(avgScore)]]

\* The object getAnalysisResult returns.
AnalysisResult(analysis, rows) ==
  [kind |-> "result",
   analysisId |-> analysis.id,
   overallScore |-> NumberOr(analysis.overall_score, 0),
   complianceLevel |-> TextOr(analysis.compliance_level, "Unknown"),
   categories |-> CategoryGroups(rows),
   duration |-> NumberOr(analysis.duration, 0)]

\* getAnalysisResult(id) up to its second await: the row is read; no row
\* returns null, a row that is not completed throws.
GetAnalysisResult(id) ==
  /\ run[id].resultPc = "idle"
  /\ run' = [run EXCEPT ![id] =
       IF analyses[id] = <<>>
       THEN [@ EXCEPT !.result = [kind |-> "null"]]
       ELSE IF ~IsCompleted(analyses[id][1])
       THEN [@ EXCEPT !.result = NotCompletedError(analyses[id][1])]
       ELSE [@ EXCEPT !.resultPc = "getTestResults",
                      !.resultAnalysis = analyses[id]]]
  /\ UNCHANGED <<cfg, analyzerVars, progressCallbacks, dbVars, delivered>>

\* getAnalysisResult(id) after getTestResults: the result is built and returned.
GetTestResults(id) ==
  /\ run[id].resultPc = "getTestResults"
  /\ run' = [run EXCEPT ![id] =
       [@ EXCEPT !.resultPc = "idle", !.resultAnalysis = <<>>,
                 !.result = AnalysisResult(run[id].resultAnalysis[1],
                                           test_results[id])]]
  /\ UNCHANGED <<cfg, analyzerVars, progressCallbacks, dbVars, delivered>>

Next ==
  \E r \in Runs :
    \/ Analyze(r)
    \/ CreateAnalysis(r)
    \/ Progress5(r)
    \/ Initialize(r)
    \/ NewPage(r)
    \/ Progress10(r)
    \/ Goto(r)
    \/ SaveNavigationError(r)
    \/ Progress15(r)
    \/ CategoryStart(r)
    \/ RunAllTests(r)
    \/ SaveCategoryError(r)
    \/ Progress90(r)
    \/ Persist(r)
    \/ Finalize(r)
    \/ Progress100(r)
    \/ Catch(r)
    \/ CatchUpdate(r)
    \/ ProgressFailed(r)
    \/ Finally(r)
    \/ PageClosed(r)
    \/ Settle(r)

\* One analyze call on the analyzer, every input and every fault.
Spec == Init /\ [][Next]_vars

\* Two analyze calls on the analyzer, one after the other.
SpecSequential == InitSequential /\ [][Next]_vars

\* Two analyze calls interleaved on the shared analyzer.
SpecConcurrent == InitConcurrent /\ [][Next]_vars

\* deleteAnalysis: the three DELETE statements of the transaction (taken in
\* one step; statements of a running analyze can only come between them).
DeleteAnalysis(id) ==
  /\ test_results' = [test_results EXCEPT ![id] = <<>>]
  /\ violations' = [violations EXCEPT ![id] = 0]
  /\ analyses' = [analyses EXCEPT ![id] = <<>>]

\* DELETE /api/nortic-analysis/:analysisId: 404 when getAnalysis finds no row,
\* else deleteAnalysis, which returns true when it deleted the run row.
DeleteAnalysisRoute(id) ==
  /\ id \in cfg.runs
  /\ IF analyses[id] = <<>>
     THEN /\ run' = [run EXCEPT ![id].deleteResponse = "notFound"]
          /\ UNCHANGED dbVars
     ELSE /\ DeleteAnalysis(id)
          /\ run' = [run EXCEPT ![id].deleteResponse = "deleted"]
  /\ UNCHANGED <<cfg, analyzerVars, progressCallbacks, delivered>>

\* The steps of analyze and of the DELETE requests.
NextDelete ==
  \/ Next
  \/ \E id \in Runs : DeleteAnalysisRoute(id)

\* One call of analyze with DELETE requests for its id.
SpecDelete == InitDelete /\ [][NextDelete]_vars

\* analyze is called once more with the id of a call that has settled (the
\* method takes the id from its caller); no sink is registered for it.
AnalyzeAgain(r) ==
  /\ run[r].pc = "settled"
  /\ run[r].calls < MaxCalls
  /\ \E target \in cfg.targets, options \in cfg.options, t \in cfg.startTimes :
       run' = [run EXCEPT ![r] =
                 [IdleRun EXCEPT !.pc = "createAnalysis", !.target = target,
                                 !.options = options, !.startTime = t,
                                 !.observed = r \in progressCallbacks,
                                 !.currentTestName = "Inicializando analisis",
                                 !.currentCategory = "system",
                                 !.calls = run[r].calls + 1,
                                 !.before = [analysis |-> analyses[r],
                                             rows |-> test_results[r]]]]
  /\ UNCHANGED <<cfg, analyzerVars, progressCallbacks, dbVars, delivered>>

\* The steps of analyze, called up to MaxCalls times with one id.
NextRepeat ==
  \/ Next
  \/ \E r \in Runs : AnalyzeAgain(r)

\* Calls of analyze repeated with the id of an earlier call.
SpecRepeat == InitRepeat /\ [][NextRepeat]_vars

\* The steps of analyze and of the getAnalysisResult calls.
NextResults ==
  \/ Next
  \/ \E id \in Runs :
       \/ GetAnalysisResult(id)
       \/ GetTestResults(id)

\* One call of analyze read by getAnalysisResult.
SpecResults == InitResults /\ [][NextResults]_vars

(***************************************************************************)
(* Reading the tables                                                      *)
(***************************************************************************)
\* getAnalysis(id) finds a row.
HasRow(id) == analyses[id] # <<>>

\* The row getAnalysis(id) returns.
Row(id) == analyses[id][1]

\* The stored status of run id ("none": no row).
Status(id) == IF HasRow(id) THEN Row(id).status ELSE "none"

\* The terminal values of the status column.
Terminal == {"completed", "failed"}

\* The rows of run id whose category is c.
RowsOf(id, c) == {i \in DOMAIN test_results[id] : test_results[id][i].category = c}

\* Those of them that are failed with score 0.
FailedRowsOf(id, c) ==
  {i \in RowsOf(id, c) :
     test_results[id][i].status = "failed" /\ test_results[id][i].score = 0}

\* analyze has returned or thrown.
Ended(r) == run[r].pc \in {"done", "settled"}

\* The categories whose evaluator was started, in order.
InvokedCategories(r) == [i \in DOMAIN run[r].invoked |-> run[r].invoked[i].category]

\* The recognized names of a category list, in order.
RecognizedOf(list) == SelectSeq(list, LAMBDA c : c \in Recognized)

RECURSIVE ExpectedTotal(_, _, _)
\* The sum of the scores of the categories in cats on a page of the target,
\* a crashed one counting 0.
ExpectedTotal(target, cats, crashed) ==
  IF cats = {} THEN 0
  ELSE LET c == CHOOSE k \in cats : TRUE
       IN (IF c \in crashed THEN 0 ELSE CategoryScore(target, c))
          + ExpectedTotal(target, cats \ {c}, crashed)

(***************************************************************************)
(* C1 .. C10                                                               *)
(***************************************************************************)
\* C1: once the stored status of a run is completed or failed, no later step
\* writes a different status.
C1_TerminalStatusNeverRewritten ==
  [][\A r \in Runs : Status(r) \in Terminal => Status(r)' = Status(r)]_vars

\* C2: a completed or failed run has end_time and duration set, duration >= 0;
\* a pending or in_progress run has neither.
C2_TerminalHasEndTimeAndDuration ==
  \A r \in Runs : HasRow(r) =>
    /\ Row(r).status \in Terminal =>
         /\ Row(r).end_time # {}
         /\ Row(r).duration # {}
         /\ \A d \in Row(r).duration : d >= 0
    /\ Row(r).status \in {"pending", "in_progress"} =>
         Row(r).end_time = {} /\ Row(r).duration = {}

\* C3: overall_score (an integer in 0..100) and compliance_level are set if
\* and only if the status is completed.
C3_ScoreIffCompleted ==
  \A r \in Runs : HasRow(r) =>
    ( /\ Row(r).overall_score # {}
      /\ Row(r).compliance_level # {}
      /\ \A s \in Row(r).overall_score : s \in 0..100 )
    <=> Row(r).status = "completed"

\* C4: in a call whose only failures are throwing evaluators, the exception
\* never reaches the catch block of analyze, every recognized category of the
\* list has had its evaluator started once the loop is left, and the call
\* returns with the run stored as completed.
C4_CategoryFailureContained ==
  \A r \in Runs : (run[r].crashed # {} /\ run[r].faults = 0) =>
    /\ run[r].pc \notin {"catch", "catchUpdate", "progressFailed"}
    /\ run[r].pc \notin {"category", "runAllTests", "saveCategoryError"} =>
         InvokedCategories(r) = RecognizedOf(run[r].testCategories)
    /\ Ended(r) => Status(r) = "completed" /\ run[r].outcome = "returned"

\* C4: the first evaluator of the default list has thrown, all six were
\* started and the run is completed.
C4_Witness ==
  \E r \in Runs :
    /\ Ended(r) /\ run[r].faults = 0
    /\ "usabilidad" \in run[r].crashed
    /\ InvokedCategories(r) = DefaultCategories
    /\ Status(r) = "completed"

\* C5: with no other fault, a category whose evaluator threw has score 0 in
\* categoryResults and exactly one row, failed with score 0, under its own
\* key; the stored overall score is the rounded mean with that category at 0;
\* security throwing on the default list ends completed with one failed row
\* under "seguridad", and category scores of 0 for security and 90 for the
\* other five give 75, Parcial.
C5_CrashedCategoryScoresZero ==
  \A r \in Runs : run[r].faults = 0 =>
    /\ \A c \in run[r].crashed :
         \/ run[r].pc = "saveCategoryError" /\ run[r].testCategories[run[r].idx] = c
         \/ /\ c \in DOMAIN run[r].categoryResults
            /\ run[r].categoryResults[c].score = 0
            /\ Cardinality(RowsOf(r, c)) = 1
            /\ FailedRowsOf(r, c) = RowsOf(r, c)
    /\ (Ended(r) /\ run[r].crashed # {}) =>
         LET cats == {run[r].testCategories[i] : i \in DOMAIN run[r].testCategories}
                       \cap Recognized
         IN Row(r).overall_score =
              {JSRound(ExpectedTotal(run[r].target, cats, run[r].crashed),
                       Cardinality(cats))}
    /\ (Ended(r) /\ run[r].target = "all90" /\ run[r].options = {}
          /\ run[r].crashed = {"seguridad"}) =>
         /\ Status(r) = "completed"
         /\ Row(r).overall_score = {OverallScore(run[r].categoryResults)}
         /\ Row(r).compliance_level = {"Parcial"}
         /\ Cardinality(FailedRowsOf(r, "seguridad")) = 1
    /\ LET example == [c \in Recognized |->
                         IF c = "seguridad" THEN [score |-> 0, status |-> "failed"]
                         ELSE [score |-> 90, status |-> "passed"]]
       IN /\ OverallScore(example) = 75
          /\ ComplianceLevel(OverallScore(example)) = "Parcial"

\* C5: the run of the example has ended.
C5_Witness ==
  \E r \in Runs :
    /\ Ended(r) /\ run[r].faults = 0
    /\ run[r].target = "all90" /\ run[r].options = {}
    /\ run[r].crashed = {"seguridad"}
    /\ Row(r).overall_score = {77}

\* C6: when session acquisition or navigation fails, the run ends failed,
\* without a score, and with exactly one TestResult row.
C6_SessionFailureOneFatalRecord ==
  \A r \in Runs :
    (Ended(r) /\ run[r].fatal \in {"acquisition", "navigation"}
       /\ ~run[r].dbFailed /\ ~run[r].sinkThrew) =>
      /\ Status(r) = "failed"
      /\ Row(r).overall_score = {}
      /\ Len(test_results[r]) = 1

\* C7: when the target answers 404, the run ends failed, without a score,
\* with one row under category navigation (failed, score 0), and no evaluator
\* was started.
C7_Http404OneNavigationRecord ==
  \A r \in Runs :
    (Ended(r) /\ run[r].target = "http404" /\ run[r].fatal = "http"
       /\ ~run[r].dbFailed /\ ~run[r].sinkThrew) =>
      /\ Status(r) = "failed"
      /\ Row(r).overall_score = {}
      /\ Cardinality(FailedRowsOf(r, "navigation")) = 1
      /\ run[r].invoked = <<>>

\* C8: with one call at a time, close() is called only on the page the call
\* created and at most once on any page; this.page holds only the page of
\* the call in progress; when analyze has returned or thrown, the page it
\* created is closed, and a call that created no page has closed none.
C8_PageReleasedOnEveryPath ==
  /\ \A pg \in DOMAIN pages : pages[pg].closed <= 1
  /\ page # 0 => \E r \in Runs : ~Ended(r) /\ run[r].ownPage = page
  /\ \A r \in Runs :
       /\ run[r].closingPage # 0 => run[r].closingPage = run[r].ownPage
       /\ Ended(r) =>
            /\ run[r].ownPage # 0 => pages[run[r].ownPage].closed = 1
            /\ run[r].ownPage = 0 => run[r].closingPage = 0

\* C8: the first call has failed inside its catch block with its page closed,
\* and the second call, which created no page, has ended without closing one.
C8_Witness ==
  /\ Ended(1) /\ run[1].outcome = "threw" /\ run[1].error = "db"
  /\ run[1].ownPage # 0 /\ pages[run[1].ownPage].closed = 1
  /\ Ended(2) /\ run[2].ownPage = 0 /\ run[2].closingPage = 0

\* C9: every evaluator of a run works on the page that run created, a run
\* closes only the page it created, and when all calls have ended every page
\* has been closed.
C9_PageUsedOnlyByItsRun ==
  /\ \A r \in Runs :
       /\ \A i \in DOMAIN run[r].invoked :
            /\ run[r].invoked[i].page # 0
            /\ pages[run[r].invoked[i].page].owner = r
       /\ run[r].closingPage # 0 => run[r].closingPage = run[r].ownPage
  /\ (\A r \in cfg.runs : Ended(r)) => \A pg \in DOMAIN pages : pages[pg].closed = 1

\* C10: once the stored status of a run is completed or failed, no TestResult
\* or violation row is added for it.
C10_NoRowAfterTerminalStatus ==
  [][\A r \in Runs : Status(r) \in Terminal =>
        /\ test_results'[r] = test_results[r]
        /\ violations'[r] = violations[r]]_vars

(***************************************************************************)
(* C11 .. C20                                                              *)
(***************************************************************************)
\* The categories whose evaluator was started.
Executed(r) == {run[r].invoked[i].category : i \in DOMAIN run[r].invoked}

\* round(mean of the scores of the executed categories), a crashed one
\* counting 0; the guarded value 0 when none was executed.
ExpectedScore(r) ==
  IF Executed(r) = {} THEN 0
  ELSE JSRound(ExpectedTotal(run[r].target, Executed(r), run[r].crashed),
               Cardinality(Executed(r)))

\* C11: the stored overall score of a completed run is the rounded mean of the
\* scores of the categories whose evaluator was executed, a category whose
\* evaluator threw counting 0.
C11_ScoreIsMeanOfExecuted ==
  \A r \in Runs : Status(r) = "completed" => Row(r).overall_score = {ExpectedScore(r)}

\* C12: the compliance level of a completed run follows from its overall score
\* alone: 90 and above Excelente, 80..89 Cumple, 60..79 Parcial, 0..59 No Cumple.
C12_LevelFollowsThresholds ==
  \A r \in Runs : Status(r) = "completed" =>
    \A s \in Row(r).overall_score :
      /\ s >= 90 => Row(r).compliance_level = {"Excelente"}
      /\ s \in 80..89 => Row(r).compliance_level = {"Cumple"}
      /\ s \in 60..79 => Row(r).compliance_level = {"Parcial"}
      /\ s \in 0..59 => Row(r).compliance_level = {"No Cumple"}

\* C12: a run has completed with score 80, on the boundary of Cumple.
C12_Witness ==
  \E r \in Runs :
    /\ Status(r) = "completed"
    /\ Row(r).overall_score = {80}
    /\ Row(r).compliance_level = {"Cumple"}

\* C13: with no category executed the stored overall score is 0, and a stored
\* overall score is never NaN.
C13_ZeroCategoriesScoreZero ==
  \A r \in Runs : HasRow(r) =>
    /\ NaN \notin Row(r).overall_score
    /\ (Status(r) = "completed" /\ DOMAIN run[r].categoryResults = {}) =>
         Row(r).overall_score = {0}

\* The run of the scenario of C14 has ended: the default list on a page where
\* five evaluators score 100 and one 40, no evaluator throwing, no fault.
MixedScenario(r) ==
  /\ Ended(r) /\ run[r].target = "mixed" /\ run[r].options = {}
  /\ run[r].crashed = {} /\ run[r].faults = 0

\* C14 as stated: scores [100,100,100,100,100,40] end with overall score 73,
\* level Parcial and status completed.
C14_MixedScoresGive73 ==
  \A r \in Runs : MixedScenario(r) =>
    /\ Status(r) = "completed"
    /\ Row(r).overall_score = {73}
    /\ Row(r).compliance_level = {"Parcial"}

\* C14 amended: scores [100,100,100,100,100,40] end with overall score
\* round(540 / 6) = 90, level Excelente and status completed.
C14_MixedScoresGive90 ==
  \A r \in Runs : MixedScenario(r) =>
    /\ Status(r) = "completed"
    /\ Row(r).overall_score = {90}
    /\ Row(r).compliance_level = {"Excelente"}

\* C14: the run of the scenario has ended with its six category scores.
C14_Witness ==
  \E r \in Runs :
    /\ MixedScenario(r)
    /\ DOMAIN run[r].categoryResults = Recognized
    /\ run[r].categoryResults["accesibilidad"].score = 40
    /\ \A c \in Recognized \ {"accesibilidad"} : run[r].categoryResults[c].score = 100

\* C15: the progress values handed to the sink of a run never decrease.
C15_ProgressNonDecreasing ==
  \A r \in Runs : \A i, j \in DOMAIN delivered[r] :
    i < j => delivered[r][i].progress <= delivered[r][j].progress

\* The last update handed to the sink of run r.
LastUpdate(r) == delivered[r][Len(delivered[r])]

\* C16: when the call of an observed run has settled, the last update handed
\* to its sink is {progress 100, completed} or {failed, a non-empty error}, and
\* its status is the stored status of the run.
C16_LastEventIsTerminal ==
  \A r \in Runs : (run[r].pc = "settled" /\ run[r].observed) =>
    /\ delivered[r] # <<>>
    /\ \/ LastUpdate(r).progress = 100 /\ LastUpdate(r).status = "completed"
       \/ /\ LastUpdate(r).status = "failed"
          /\ "error" \in DOMAIN LastUpdate(r)
          /\ LastUpdate(r).error # ""
    /\ LastUpdate(r).status = Status(r)

\* The terminal status of a call that meets no fault: decided by navigation.
StatusOfTarget(target) ==
  IF GotoOutcome(target) = "200" THEN "completed" ELSE "failed"

\* C17: a run with no sink receives no update and meets no error from
\* publishing; a call that meets no fault ends in the status and with the
\* score its inputs decide, with or without a sink; registering twice or
\* unregistering twice, or unregistering an id that has no sink, is the same
\* as doing it once.
C17_UnobservedRunSameLifecycle ==
  /\ \A r \in Runs : ~run[r].observed =>
       /\ delivered[r] = <<>>
       /\ ~run[r].sinkThrew
       /\ run[r].error # "sink"
  /\ \A r \in Runs : (Ended(r) /\ run[r].faults = 0) =>
       /\ Status(r) = StatusOfTarget(run[r].target)
       /\ Row(r).overall_score =
            IF Status(r) = "failed" THEN {}
            ELSE IF Executed(r) = {} THEN {NaN} ELSE {ExpectedScore(r)}
  /\ \A id \in Runs :
       /\ SetProgressCallback(SetProgressCallback(progressCallbacks, id), id)
            = SetProgressCallback(progressCallbacks, id)
       /\ RemoveProgressCallback(RemoveProgressCallback(progressCallbacks, id), id)
            = RemoveProgressCallback(progressCallbacks, id)
       /\ id \notin progressCallbacks =>
            RemoveProgressCallback(progressCallbacks, id) = progressCallbacks

\* C17: a run started with no sink has completed, nothing was delivered.
C17_Witness ==
  \E r \in Runs :
    /\ Ended(r) /\ ~run[r].observed /\ run[r].faults = 0
    /\ Status(r) = "completed"
    /\ Executed(r) = Recognized
    /\ delivered[r] = <<>>

\* C18: with calls interleaved, every update handed to the sink registered
\* under an id carries that id, and only a run that registered a sink has
\* received updates.
C18_UpdatesReachOwnSinkOnly ==
  \A r \in Runs :
    /\ \A i \in DOMAIN delivered[r] : delivered[r][i].analysisId = r
    /\ delivered[r] # <<>> => run[r].observed

\* C18: two observed calls are in progress and both sinks have received updates.
C18_Witness ==
  /\ \A r \in Runs : run[r].observed /\ ~Ended(r) /\ Len(delivered[r]) >= 2
  /\ progressCallbacks = Runs

\* C19: whatever the sink does, a call that meets no other fault ends in the
\* status navigation decides; when it completes, the evaluator of every
\* recognized category of its list has run and the score is their rounded
\* mean; and no TestResult row records an error of the sink.
C19_SinkDoesNotChangeOutcome ==
  \A r \in Runs :
    /\ \A i \in DOMAIN test_results[r] : test_results[r][i].message # "sink"
    /\ (Ended(r) /\ ~run[r].dbFailed /\ run[r].fatal # "acquisition") =>
         /\ Status(r) = StatusOfTarget(run[r].target)
         /\ Status(r) = "completed" =>
              /\ InvokedCategories(r) = RecognizedOf(run[r].testCategories)
              /\ Row(r).overall_score =
                   IF Executed(r) = {} THEN {NaN} ELSE {ExpectedScore(r)}

\* C20: a getAnalysisResult call changes no table; it returns null when the
\* id has no row, throws with the row's status when the row is pending,
\* in_progress or failed, and goes on to build a result, from the row it read,
\* only when that row is completed.
C20_ResultOnlyWhenCompleted ==
  [][\A id \in Runs :
       /\ GetAnalysisResult(id) =>
            /\ dbVars' = dbVars
            /\ ~HasRow(id) =>
                 run'[id].result = [kind |-> "null"] /\ run'[id].resultPc = "idle"
            /\ (HasRow(id) /\ Status(id) # "completed") =>
                 /\ run'[id].result = [kind |-> "error", status |-> Status(id)]
                 /\ run'[id].resultPc = "idle"
            /\ Status(id) = "completed" =>
                 /\ run'[id].result = run[id].result
                 /\ run'[id].resultAnalysis = <<Row(id)>>
       /\ GetTestResults(id) =>
            /\ dbVars' = dbVars
            /\ run[id].resultAnalysis[1].status = "completed"
            /\ run'[id].result.kind = "result"
            /\ run'[id].result.analysisId = id
            /\ run[id].resultAnalysis[1].overall_score \in
                 {{NaN}, {run'[id].result.overallScore}}]_vars

\* C20: a call for a failed run has thrown, and the run is as it was.
C20_Witness ==
  \E id \in Runs :
    /\ Status(id) = "failed"
    /\ run[id].result = [kind |-> "error", status |-> "failed"]
    /\ Ended(id)

(***************************************************************************)
(* C21 .. C30                                                              *)
(***************************************************************************)
\* C21: when analyze has returned or thrown, a run whose row was created is
\* completed or failed (nothing writes the row afterwards); and a call whose
\* only fault is one failure of the completed write ends completed, the write
\* having been retried.
C21_FinalizeFailureNotStuck ==
  \A r \in Runs : (Ended(r) /\ HasRow(r)) =>
    /\ Status(r) \in Terminal
    /\ (run[r].update # <<>> /\ run[r].dbFailed /\ run[r].faults = 1) =>
         Status(r) = "completed"

\* C22: when analyze has thrown, a failed TestResult row with the error exists
\* for the run, the stored status is failed, and the sink of an observed run
\* has received an update with status failed and the error message.
C22_FailureSurfacedThreeWays ==
  \A r \in Runs : (Ended(r) /\ run[r].outcome = "threw") =>
    /\ \E i \in DOMAIN test_results[r] :
         test_results[r][i].status = "failed" /\ test_results[r][i].message # ""
    /\ Status(r) = "failed"
    /\ run[r].observed =>
         \E i \in DOMAIN delivered[r] :
           /\ delivered[r][i].status = "failed"
           /\ "error" \in DOMAIN delivered[r][i]
           /\ delivered[r][i].error # ""

\* C23: a run selecting the six documented names that completes without a
\* fault has started six evaluators and has six category scores.
C23_DocumentedNamesRunEvaluators ==
  \A r \in Runs :
    (Ended(r) /\ run[r].options = {DocumentedCategories} /\ run[r].faults = 0
       /\ Status(r) = "completed") =>
      /\ Len(run[r].invoked) = Len(DocumentedCategories)
      /\ Cardinality(DOMAIN run[r].categoryResults) = Len(DocumentedCategories)

\* The names of the list of run r that the switch does not recognize.
Unrecognized(r) ==
  {run[r].testCategories[i] : i \in DOMAIN run[r].testCategories} \ Recognized

\* C24: an unrecognized name of the list starts no evaluator, has no entry in
\* categoryResults and no TestResult row under its name.
C24_UnrecognizedNameSkipped ==
  \A r \in Runs :
    /\ Executed(r) \cap Unrecognized(r) = {}
    /\ DOMAIN run[r].categoryResults \cap Unrecognized(r) = {}
    /\ \A c \in Unrecognized(r) : RowsOf(r, c) = {}

\* C25: an id has at most one row, and a later analyze call with an id that
\* has a row leaves that row and the TestResult rows of the id as they were
\* when the call began.
C25_SecondCallLeavesRunUnchanged ==
  \A r \in Runs :
    /\ Len(analyses[r]) <= 1
    /\ (run[r].calls >= 2 /\ run[r].before.analysis # <<>>) =>
         /\ analyses[r] = run[r].before.analysis
         /\ test_results[r] = run[r].before.rows

\* C26: in every state the TestResult and violation rows of an id belong to
\* an existing run row: an id without a run row has none, also after a DELETE
\* request that came while analyze was running for the id.
C26_RowsReferenceExistingRun ==
  \A id \in Runs : ~HasRow(id) => test_results[id] = <<>> /\ violations[id] = 0

\* The position of a name in the category list of run r (0: not in it).
PositionOf(r, c) ==
  IF \E i \in DOMAIN run[r].testCategories : run[r].testCategories[i] = c
  THEN CHOOSE i \in DOMAIN run[r].testCategories : run[r].testCategories[i] = c
  ELSE 0

\* The stages before the outcomes are persisted.
BeforePersist ==
  {"idle", "createAnalysis", "progress5", "initialize", "newPage", "progress10",
   "goto", "saveNavigationError", "progress15", "category", "runAllTests",
   "saveCategoryError", "progress90"}

\* The sink of run r has received the completed update.
CompletedDelivered(r) ==
  \E i \in DOMAIN delivered[r] : delivered[r][i].status = "completed"

\* The order of the stages of a call in terms of what each stage leaves behind.
StagesInOrder(r) ==
  /\ \A i \in DOMAIN delivered[r] :
       /\ delivered[r][i].progress >= 5 => HasRow(r)
       /\ delivered[r][i].progress >= 10 => run[r].ownPage # 0
       /\ delivered[r][i].progress >= 15 =>
            pages[run[r].ownPage].target = run[r].target
       /\ delivered[r][i].progress >= 90 =>
            /\ run[r].idx > Len(run[r].testCategories)
            /\ Executed(r) \subseteq DOMAIN run[r].categoryResults
  /\ run[r].invoked # <<>> => pages[run[r].ownPage].target = run[r].target
  /\ \A i, j \in DOMAIN run[r].invoked :
       i < j => PositionOf(r, run[r].invoked[i].category)
                  < PositionOf(r, run[r].invoked[j].category)
  /\ \A i \in DOMAIN run[r].invoked :
       (i < Len(run[r].invoked) \/ run[r].pc # "runAllTests") =>
         \/ run[r].invoked[i].category \in DOMAIN run[r].categoryResults
         \/ run[r].pc = "saveCategoryError" /\ i = Len(run[r].invoked)
  /\ run[r].pc \in BeforePersist =>
       /\ \A c \in Recognized : RowsOf(r, EvaluatorLabel(c)) = {}
       /\ Status(r) \in {"none", "in_progress"}
  /\ Status(r) = "completed" => run[r].allTestResults = <<>>
  /\ (run[r].pc = "progress100" \/ CompletedDelivered(r)) =>
       /\ HasRow(r)
       /\ Row(r).overall_score # {} /\ Row(r).compliance_level # {}
  /\ run[r].pc = "progress100" => Status(r) = "completed" /\ ~CompletedDelivered(r)
  /\ (CompletedDelivered(r) /\ run[r].outcome = "returned") => Status(r) = "completed"

\* C27: the stages of a call occur in order: run row, 5%, page and 10%,
\* navigation and 15%, the evaluators one at a time in list order, 90% and the
\* outcomes persisted, the completed write, and last the completed update, at
\* which the stored run is completed with a score in 0..100 and a level.
C27_StagesInOrder ==
  \A r \in Runs :
    /\ StagesInOrder(r)
    /\ (run[r].pc = "progress100" \/ CompletedDelivered(r)) =>
         \A score \in Row(r).overall_score : score \in 0..100

\* C28: a stored duration is the whole number of seconds from the start to the
\* end timestamp of the run, and 0 when the end timestamp is the earlier one.
C28_DurationClampedAtZero ==
  \A r \in Runs : HasRow(r) =>
    \A d \in Row(r).duration, e \in Row(r).end_time :
      /\ d >= 0
      /\ d = IF e < Row(r).start_time THEN 0
             ELSE JSRound(e - Row(r).start_time, 1000)

\* C29: chromium.launch has been called at most once, and every browser it
\* returned is the one this.browser refers to.
C29_BrowserLaunchedOnce ==
  /\ launched <= 1
  /\ browser = launched

RECURSIVE SumOfEntries(_, _)
\* The sum of the scores of the entries of a returned categories object.
SumOfEntries(categories, keys) ==
  IF keys = {} THEN 0
  ELSE LET k == CHOOSE key \in keys : TRUE
       IN categories[k].score + SumOfEntries(categories, keys \ {k})

\* round(mean of the per-category scores of a returned result), 0 for none.
MeanOfReturned(result) ==
  LET keys == DOMAIN result.categories
  IN IF keys = {} THEN 0
     ELSE JSRound(SumOfEntries(result.categories, keys), Cardinality(keys))

\* C30: a result returned by getAnalysisResult has one entry per category of
\* categoryResults, each entry carries the score that category had in the
\* mean, and the rounded mean of the returned scores is the returned
\* overallScore.
C30_ReturnedScoresConsistent ==
  \A r \in Runs : run[r].result.kind = "result" =>
    LET returned == run[r].result.categories
        used == run[r].categoryResults
    IN /\ Cardinality(DOMAIN returned) = Cardinality(DOMAIN used)
       /\ \A c \in DOMAIN used :
            \E k \in (DOMAIN returned) \cap {c, EvaluatorLabel(c)} :
              returned[k].score = used[c].score
       /\ MeanOfReturned(run[r].result) = run[r].result.overallScore

====
